---- MODULE Spec2Model ----
(***************************************************************************)
(* Model of the incident-simulation chat system (src/app.py): the personas *)
(* (class Agent: bid, step) and the dispatcher loop                        *)
(* (CommunicationManager.run_simulation).                                  *)
(*                                                                         *)
(* Text is modelled as sequences of one-character strings, so that the     *)
(* substring tests, the whole-word regex, lower(), split() and strip() of  *)
(* the source are computed and not assumed.                                *)
(***************************************************************************)
EXTENDS Integers, Sequences, FiniteSets, TLC

(* ------------------------------ bounds --------------------------------- *)

\* number of model calls (handled turns) explored in one session
MaxTurns == 3

\* highest keyword-recurrence count explored by the bid harness
MaxCount == 5

(* --------------------------- text constants ---------------------------- *)

UpperCase ==
  <<"A","B","C","D","E","F","G","H","I","J","K","L","M","N","O","P","Q","R","S","T","U","V","W","X","Y","Z">>
LowerCase ==
  <<"a","b","c","d","e","f","g","h","i","j","k","l","m","n","o","p","q","r","s","t","u","v","w","x","y","z">>
Digits ==
  <<"0","1","2","3","4","5","6","7","8","9">>
UserPrefix ==
  <<"U","s","e","r",":"," ">>
PreviouslyAddressed ==
  <<"P","r","e","v","i","o","u","s","l","y"," ","a","d","d","r","e","s","s","e","d",":"," ">>
Apology ==
  <<"S","o","r","r","y",","," ","I"," ","e","n","c","o","u","n","t","e","r","e","d"," ","a","n"," ","e","r","r","o","r","."," ","P","l","e","a","s","e"," ","t","r","y"," ","a","g","a","i","n",".">>
ExitingText ==
  <<"E","x","i","t","i","n","g"," ","c","h","a","t"," ","s","y","s","t","e","m",".",".",".">>
cmd_exit ==
  <<"e","x","i","t">>
cmd_quit ==
  <<"q","u","i","t">>
cmd_list_all_agents ==
  <<"l","i","s","t"," ","a","l","l"," ","a","g","e","n","t","s">>
cmd_focus ==
  <<"w","h","a","t","'","s"," ","y","o","u","r"," ","f","o","c","u","s">>
kw_urgent ==
  <<"u","r","g","e","n","t">>
kw_asap ==
  <<"a","s","a","p">>
kw_immediately ==
  <<"i","m","m","e","d","i","a","t","e","l","y">>
kw_media ==
  <<"m","e","d","i","a">>
kw_deploy ==
  <<"d","e","p","l","o","y">>
kw_rollback ==
  <<"r","o","l","l","b","a","c","k">>
kw_database ==
  <<"d","a","t","a","b","a","s","e">>
focus_ceo ==
  <<"v","i","s","i","o","n">>
focus_cto ==
  <<"s","t","r","a","t","e","g","y">>
focus_assistant ==
  <<"d","e","p","l","o","y","m","e","n","t","s">>
in_exit ==
  <<"e","x","i","t">>
in_Quit ==
  <<"Q","u","i","t">>
in_list ==
  <<"L","i","s","t"," ","a","l","l"," ","a","g","e","n","t","s">>
in_focus_ben ==
  <<"w","h","a","t","'","s"," ","y","o","u","r"," ","f","o","c","u","s"," ","B","e","n">>
in_focus_bob ==
  <<"T","y","n","e"," ","w","h","a","t","'","s"," ","y","o","u","r"," ","f","o","c","u","s"," ","B","o","b">>
msg_addressed ==
  <<"T","y","n","e"," ","d","e","p","l","o","y"," ","d","a","t","a","b","a","s","e">>
msg_two_names ==
  <<"d","a"," ","a","n","d"," ","b","e","n"," ","d","e","p","l","o","y">>
msg_tie ==
  <<"d","e","p","l","o","y"," ","u","r","g","e","n","t"," ","a","s","a","p">>
msg_scenario ==
  <<"t","h","e"," ","d","a","t","a","b","a","s","e"," ","l","o","o","k","s"," ","c","o","r","r","u","p","t","e","d",","," ","u","r","g","e","n","t">>
msg_hello ==
  <<"h","e","l","l","o">>
msg_substring ==
  <<"B","e","n","j","a","m","i","n"," ","d","e","p","l","o","y","e","d"," ","m","e","d","i","a">>
n_Ben ==
  <<"B","e","n">>
n_Tyne ==
  <<"T","y","n","e">>
n_Da ==
  <<"D","a">>
r_CEO ==
  <<"C","E","O">>
r_CTO ==
  <<"C","T","O">>
r_Assistant ==
  <<"A","s","s","i","s","t","a","n","t">>
n_System ==
  <<"S","y","s","t","e","m">>
greet_Ben ==
  <<"H","e","l","l","o",","," ","I","'","m"," ","B","e","n",","," ","t","h","e"," ","C","E","O",".">>
greet_Tyne ==
  <<"H","e","y"," ","t","h","e","r","e",","," ","T","y","n","e"," ","h","e","r","e"," ","-"," ","t","h","e"," ","C","T","O",".">>
greet_Da ==
  <<"H","i","!"," ","I","'","m"," ","D","a",","," ","y","o","u","r"," ","t","r","u","s","t","y"," ","t","e","c","h","n","i","c","a","l"," ","a","s","s","i","s","t","a","n","t",".">>
sev_High ==
  <<"H","i","g","h">>
sev_Medium ==
  <<"M","e","d","i","u","m">>
sev_Low ==
  <<"L","o","w">>
desc_pipeline ==
  <<"A"," ","r","e","c","e","n","t"," ","u","p","d","a","t","e"," ","b","y"," ","D","a"," ","t","o"," ","t","h","e"," ","d","a","t","a"," ","p","i","p","e","l","i","n","e"," ","i","s"," ","c","a","u","s","i","n","g"," ","o","u","r"," ","r","e","c","o","m","m","e","n","d","a","t","i","o","n"," ","m","o","d","e","l","s"," ","t","o"," ","m","a","l","f","u","n","c","t","i","o","n","."," ","U","s","e","r","s"," ","a","r","e"," ","s","e","e","i","n","g"," ","u","n","r","e","l","a","t","e","d"," ","p","r","o","d","u","c","t"," ","s","u","g","g","e","s","t","i","o","n","s",".">>
desc_database ==
  <<"T","h","e","r","e","'","s"," ","a","n"," ","a","n","o","m","a","l","y"," ","i","n"," ","t","h","e"," ","w","a","y"," ","d","a","t","a"," ","i","s"," ","b","e","i","n","g"," ","s","t","o","r","e","d"," ","p","o","s","t"," ","a"," ","c","h","a","n","g","e"," ","c","o","m","m","i","t","t","e","d"," ","b","y"," ","D","a","."," ","O","u","r"," ","d","a","t","a","b","a","s","e"," ","i","n","t","e","g","r","i","t","y"," ","m","i","g","h","t"," ","b","e"," ","c","o","m","p","r","o","m","i","s","e","d",".">>
desc_model ==
  <<"T","h","e"," ","r","e","c","e","n","t"," ","m","a","c","h","i","n","e"," ","l","e","a","r","n","i","n","g"," ","m","o","d","e","l"," ","v","e","r","s","i","o","n"," ","d","e","p","l","o","y","e","d"," ","b","y"," ","D","a"," ","t","o"," ","t","h","e"," ","p","r","o","d"," ","e","n","v","i","r","o","n","m","e","n","t"," ","i","s"," ","b","e","h","a","v","i","n","g"," ","e","r","r","a","t","i","c","a","l","l","y",","," ","a","f","f","e","c","t","i","n","g"," ","o","u","r"," ","p","r","e","d","i","c","t","i","v","e"," ","c","a","p","a","b","i","l","i","t","i","e","s",".">>
ReportPrefix ==
  <<"I","n","c","i","d","e","n","t"," ","r","e","p","o","r","t"," ","(","S","e","v","e","r","i","t","y",":"," ">>
ReportMid ==
  <<")",":"," ">>
Dash ==
  <<" ","-"," ">>
ColonSpace ==
  <<":"," ">>
body_ok ==
  <<" ","o","k"," ">>
n_User ==
  <<"U","s","e","r">>
msg_two_markers ==
  <<"u","r","g","e","n","t"," ","a","s","a","p">>
msg_immediately ==
  <<"r","o","l","l","b","a","c","k"," ","i","m","m","e","d","i","a","t","e","l","y">>

(* ---------------------------- str operations --------------------------- *)

Whitespace == {" ", "\n", "\t"}

\* str.lower() on one character
ToLower(c) ==
  IF \E i \in 1..Len(UpperCase) : UpperCase[i] = c
  THEN LowerCase[CHOOSE i \in 1..Len(UpperCase) : UpperCase[i] = c]
  ELSE c

\* str.lower()
lower(s) == [i \in 1..Len(s) |-> ToLower(s[i])]

\* s[i:i+len(sub)] == sub
MatchAt(sub, s, i) ==
  /\ i >= 1
  /\ i + Len(sub) - 1 <= Len(s)
  /\ \A j \in 1..Len(sub) : s[i + j - 1] = sub[j]

\* the Python test  sub in s
Contains(sub, s) == \E i \in 1..(Len(s) + 1) : MatchAt(sub, s, i)

\* s.startswith(prefix)
startswith(s, prefix) == MatchAt(prefix, s, 1)

\* s[n:]
Drop(s, n) == SubSeq(s, n + 1, Len(s))

\* s.strip()
RECURSIVE lstrip(_)
lstrip(s) == IF s # <<>> /\ Head(s) \in Whitespace THEN lstrip(Tail(s)) ELSE s

RECURSIVE rstrip(_)
rstrip(s) ==
  IF s # <<>> /\ s[Len(s)] \in Whitespace THEN rstrip(SubSeq(s, 1, Len(s) - 1)) ELSE s

strip(s) == rstrip(lstrip(s))

\* s.split(sep)[-1]: the text after the last separator found by the
\* left-to-right, non-overlapping scan of str.split
RECURSIVE SplitLast(_, _)
SplitLast(s, sep) ==
  IF \E i \in 1..Len(s) : MatchAt(sep, s, i)
  THEN LET first == CHOOSE i \in 1..Len(s) :
                      /\ MatchAt(sep, s, i)
                      /\ \A j \in 1..(i - 1) : ~MatchAt(sep, s, j)
       IN  SplitLast(Drop(s, first + Len(sep) - 1), sep)
  ELSE s

\* s.split()[-1]: the last whitespace-separated word (s has one)
LastWord(s) ==
  LET t == rstrip(s)
      start == CHOOSE i \in 1..Len(t) :
                 /\ \A j \in i..Len(t) : t[j] \notin Whitespace
                 /\ (i = 1 \/ t[i - 1] \in Whitespace)
  IN  SubSeq(t, start, Len(t))

\* the regex class \w
IsWordChar(c) ==
  \/ \E i \in 1..Len(UpperCase) : UpperCase[i] = c
  \/ \E i \in 1..Len(LowerCase) : LowerCase[i] = c
  \/ \E i \in 1..Len(Digits) : Digits[i] = c
  \/ c = "_"

\* re.search(f"\\b{agent_name}\\b", user_input, re.IGNORECASE) for a name
\* made of word characters: a case-insensitive occurrence with a word
\* boundary on each side
SearchWord(agent_name, text) ==
  \E i \in 1..Len(text) :
    /\ MatchAt(lower(agent_name), lower(text), i)
    /\ (i = 1 \/ ~IsWordChar(text[i - 1]))
    /\ (i + Len(agent_name) > Len(text)
          \/ ~IsWordChar(text[i + Len(agent_name)]))

\* the start of the first whole-word occurrence of a name in a text, as
\* re.search finds it; Len(text) + 1 when there is none
WordPosition(agent_name, text) ==
  LET found == {i \in 1..Len(text) :
                  /\ MatchAt(lower(agent_name), lower(text), i)
                  /\ (i = 1 \/ ~IsWordChar(text[i - 1]))
                  /\ (i + Len(agent_name) > Len(text)
                        \/ ~IsWordChar(text[i + Len(agent_name)]))}
  IN  IF found = {} THEN Len(text) + 1
      ELSE CHOOSE i \in found : \A j \in found : i <= j

(* ------------------------- registry and data --------------------------- *)

\* the registry built in __main__, in insertion order
AgentNames == <<n_Ben, n_Tyne, n_Da>>

Agents == {AgentNames[i] : i \in 1..Len(AgentNames)}

\* Agent.role of each registry entry
RoleOf(name) ==
  CASE name = n_Ben  -> "CEO"
    [] name = n_Tyne -> "CTO"
    [] name = n_Da   -> "Assistant"

\* Agent.role as printed text
RoleText(name) ==
  CASE name = n_Ben  -> r_CEO
    [] name = n_Tyne -> r_CTO
    [] name = n_Da   -> r_Assistant

\* an empty dict
EmptyDict == [x \in {} |-> x]

\* dict.get(key, default)
Get(dict, key, default) == IF key \in DOMAIN dict THEN dict[key] ELSE default

\* contents of ./knowledge_base.json (a collaborator's data file): one with a
\* record for every role, one where the Assistant role has no record and the
\* CEO record has no focus text
KBComplete ==
  [CEO       |-> [keywords |-> <<kw_media>>, focus |-> focus_ceo],
   CTO       |-> [keywords |-> <<kw_deploy, kw_rollback>>, focus |-> focus_cto],
   Assistant |-> [keywords |-> <<kw_database, kw_deploy>>, focus |-> focus_assistant]]

KBPartial ==
  [CEO |-> [keywords |-> <<kw_media>>],
   CTO |-> [keywords |-> <<kw_deploy, kw_rollback>>, focus |-> focus_cto]]

KnowledgeBaseFiles == {KBComplete, KBPartial}

\* Agent._get_knowledge_base_for
GetKnowledgeBaseFor(knowledge_bases, role) == Get(knowledge_bases, role, EmptyDict)

\* default_messages of Agent._get_system_messages_for
DefaultMessages(name) ==
  CASE name = n_Ben  -> greet_Ben
    [] name = n_Tyne -> greet_Tyne
    [] name = n_Da   -> greet_Da

\* Agent._get_system_messages_for, called by __init__ with the persona's name
GetSystemMessageFor(name, memory) ==
  DefaultMessages(name) \o <<" ">> \o Get(memory, name, <<>>)

\* the incidents of CommunicationManager.get_incident_description
incidents ==
  <<[desc |-> desc_pipeline, severity |-> sev_High],
    [desc |-> desc_database, severity |-> sev_Medium],
    [desc |-> desc_model,    severity |-> sev_Low]>>

\* the markers of the second loop of Agent.bid
UrgencyMarkers == <<kw_urgent, kw_asap, kw_immediately>>

\* the lines the user may type at the prompt
CommandInputs == {in_exit, in_Quit, in_list, in_focus_ben, in_focus_bob}

MessageInputs ==
  {msg_addressed, msg_two_names, msg_tie, msg_scenario, msg_hello}

Inputs == CommandInputs \cup MessageInputs

\* what a call of the external model may do: return the bare text, the text
\* under the persona's label, an echo of the user line followed by the
\* labelled text, or raise an error
ModelResults == {"bare", "labelled", "echo", "error"}

\* raw_output.content of a call that returns, for the persona name and the
\* user line content
RawOutput(name, content, result) ==
  CASE result = "bare"     -> body_ok
    [] result = "labelled" -> name \o ColonSpace \o body_ok
    [] result = "echo"     -> UserPrefix \o content \o <<"\n">> \o name
                                \o ColonSpace \o body_ok

\* every text given to bid: the input lines and three more messages
Texts == Inputs \cup {msg_substring, msg_two_markers, msg_immediately}

\* every keyword of a knowledge-base file
KeywordTexts ==
  UNION {{p[1][p[2]].keywords[i] : i \in 1..Len(p[1][p[2]].keywords)} :
           p \in {q \in KnowledgeBaseFiles \X {"CEO", "CTO", "Assistant"} :
                    q[2] \in DOMAIN q[1] /\ "keywords" \in DOMAIN q[1][q[2]]}}

\* the test  keyword in message.content  of Agent.bid, evaluated once for
\* every keyword or marker and every text
Occurs ==
  [keyword \in KeywordTexts \cup {UrgencyMarkers[i] : i \in 1..Len(UrgencyMarkers)},
   content \in Texts |-> Contains(keyword, content)]

(* ------------------ text analysis of step and dispatch --------------- *)

\* the try block of Agent.step after the model has returned raw
ParseOutput(name, content, raw) ==
  LET parsed_output == strip(SplitLast(raw, UserPrefix \o content)) IN
  IF startswith(parsed_output, name \o <<":">>)
  THEN strip(Drop(parsed_output, Len(name) + 1))
  ELSE parsed_output

\* Reply with the except branch swallowing the error without the apology
ReplyMut(name, content, result) ==
  IF result = "error" THEN <<>>
  ELSE ParseOutput(name, content, RawOutput(name, content, result))

\* output_message.content of Agent.step for a result of the model call
Reply(name, content, result) ==
  IF result = "error" THEN Apology
  ELSE ParseOutput(name, content, RawOutput(name, content, result))

\* output_message.content for every persona, input line and model result
Replies ==
  [name \in Agents, content \in Inputs, result \in ModelResults |->
     Reply(name, content, result)]

\* the tests of the if/elif chain of lines 140-151
IsExit(line) == lower(line) \in {cmd_exit, cmd_quit}

IsListAgents(line) == ~IsExit(line) /\ lower(line) \in {cmd_list_all_agents}

\* IsFocus testing for a prefix instead of a substring
IsFocusMut(line) ==
  ~IsExit(line) /\ ~IsListAgents(line) /\ startswith(lower(line), cmd_focus)

IsFocus(line) ==
  ~IsExit(line) /\ ~IsListAgents(line) /\ Contains(cmd_focus, lower(line))

\* the branch of the if/elif chain of lines 140-151 a line takes, evaluated
\* once for every input line
Command ==
  [line \in Inputs |->
     IF IsExit(line) THEN "exit"
     ELSE IF IsListAgents(line) THEN "list all agents"
     ELSE IF IsFocus(line) THEN "what's your focus"
     ELSE "none"]

\* user_input.split()[-1] of the focus command, for every focus line
FocusAgentName ==
  [line \in {l \in Inputs : Command[l] = "what's your focus"} |-> LastWord(line)]

\* AddressedAgent without the break: the last name found wins
RECURSIVE AddressedAgentMut(_, _)
AddressedAgentMut(i, line) ==
  IF i > Len(AgentNames) THEN <<>>
  ELSE LET later == AddressedAgentMut(i + 1, line) IN
       IF later # <<>> THEN later
       ELSE IF SearchWord(AgentNames[i], line) THEN AgentNames[i] ELSE <<>>

\* AddressedAgent choosing the name that comes first in the text
AddressedAgentTextOrder(i, line) ==
  LET found == {AgentNames[j] : j \in {k \in i..Len(AgentNames) : SearchWord(AgentNames[k], line)}}
  IN  IF found = {} THEN <<>>
      ELSE CHOOSE n \in found :
             \A o \in found : WordPosition(n, line) <= WordPosition(o, line)

\* the loop over self.agents.items() that stops at the first name found;
\* <<>> stands for None
RECURSIVE AddressedAgent(_, _)
AddressedAgent(i, line) ==
  IF i > Len(AgentNames) THEN <<>>
  ELSE IF SearchWord(AgentNames[i], line) THEN AgentNames[i]
       ELSE AddressedAgent(i + 1, line)

\* addressed_agent after the loop, evaluated once for every input line
addressed_agent == [line \in Inputs |-> AddressedAgent(1, line)]

(* -------------------------------- state -------------------------------- *)

VARIABLES
  pc,               \* position of run_simulation
  knowledge_base,   \* Agent.knowledge_base of each persona
  system_message,   \* Agent.system_message of each persona
  stored_messages,  \* Agent.stored_messages of each persona
  history,          \* Agent.history of each persona
  keyword_memory,   \* Agent.keyword_memory of each persona
  current_context,  \* Agent.current_context, the shared transcript
  shared_memory,    \* Agent.shared_memory, the shared answer cache
  user_input,       \* the line read on the current turn
  route,            \* the branch of the loop body taken on the current turn
  bids,             \* the dict built by the bid round of the current turn
  output,           \* the lines printed on the current turn
  error,            \* the exception that ended the process, if any
  model_log,        \* every call made to the external model, in order
  bid_call          \* the last direct call of bid made by the bid harness

vars ==
  <<pc, knowledge_base, system_message, stored_messages, history,
    keyword_memory, current_context, shared_memory, user_input, route, bids,
    output, error, model_log, bid_call>>

\* the state of the personas and of the shared class attributes
agent_state ==
  <<knowledge_base, system_message, stored_messages, history, keyword_memory,
    current_context, shared_memory>>

(* ------------------------------ Agent.bid ------------------------------ *)

\* BidKeywords with the penalty applied from the third match on
RECURSIVE BidKeywordsMut(_, _, _, _, _)
BidKeywordsMut(keywords, i, content, bid_value, km) ==
  IF i > Len(keywords) THEN [bid_value |-> bid_value, keyword_memory |-> km]
  ELSE
    LET keyword == keywords[i] IN
    IF Occurs[keyword, content]
    THEN IF keyword \in DOMAIN km
         THEN LET km1 == [km EXCEPT ![keyword] = @ + 1] IN
              IF km1[keyword] >= 3
              THEN BidKeywordsMut(keywords, i + 1, content, bid_value + 5 - 2, km1)
              ELSE BidKeywordsMut(keywords, i + 1, content, bid_value + 5, km1)
         ELSE BidKeywordsMut(keywords, i + 1, content, bid_value + 5,
                             km @@ (keyword :> 1))
    ELSE BidKeywordsMut(keywords, i + 1, content, bid_value, km)

\* BidKeywords applying the penalty on the 4th match only
RECURSIVE BidKeywordsOnlyFourth(_, _, _, _, _)
BidKeywordsOnlyFourth(keywords, i, content, bid_value, km) ==
  IF i > Len(keywords) THEN [bid_value |-> bid_value, keyword_memory |-> km]
  ELSE
    LET keyword == keywords[i] IN
    IF Occurs[keyword, content]
    THEN IF keyword \in DOMAIN km
         THEN LET km1 == [km EXCEPT ![keyword] = @ + 1] IN
              IF km1[keyword] = 4
              THEN BidKeywordsOnlyFourth(keywords, i + 1, content, bid_value + 5 - 2, km1)
              ELSE BidKeywordsOnlyFourth(keywords, i + 1, content, bid_value + 5, km1)
         ELSE BidKeywordsOnlyFourth(keywords, i + 1, content, bid_value + 5,
                 km @@ (keyword :> 1))
    ELSE BidKeywordsOnlyFourth(keywords, i + 1, content, bid_value, km)

\* first loop of Agent.bid from keyword number i on: the bid value and the
\* keyword-recurrence map after it
RECURSIVE BidKeywords(_, _, _, _, _)
BidKeywords(keywords, i, content, bid_value, km) ==
  IF i > Len(keywords) THEN [bid_value |-> bid_value, keyword_memory |-> km]
  ELSE
    LET keyword == keywords[i] IN
    IF Occurs[keyword, content]
    THEN IF keyword \in DOMAIN km
         THEN LET km1 == [km EXCEPT ![keyword] = @ + 1] IN
              IF km1[keyword] > 3
              THEN BidKeywords(keywords, i + 1, content, bid_value + 5 - 2, km1)
              ELSE BidKeywords(keywords, i + 1, content, bid_value + 5, km1)
         ELSE BidKeywords(keywords, i + 1, content, bid_value + 5,
                          km @@ (keyword :> 1))
    ELSE BidKeywords(keywords, i + 1, content, bid_value, km)

\* BidUrgency leaving the loop at the first marker found
RECURSIVE BidUrgencyMut(_, _, _)
BidUrgencyMut(i, content, bid_value) ==
  IF i > Len(UrgencyMarkers) THEN bid_value
  ELSE IF Occurs[UrgencyMarkers[i], content]
       THEN bid_value + 10
       ELSE BidUrgencyMut(i + 1, content, bid_value)

\* second loop of Agent.bid from marker number i on
RECURSIVE BidUrgency(_, _, _)
BidUrgency(i, content, bid_value) ==
  IF i > Len(UrgencyMarkers) THEN bid_value
  ELSE IF Occurs[UrgencyMarkers[i], content]
       THEN BidUrgency(i + 1, content, bid_value + 10)
       ELSE BidUrgency(i + 1, content, bid_value)

\* bid returning after the keyword loop, without the urgency markers
bidNoUrgency(kb, km, content) ==
  IF "keywords" \notin DOMAIN kb
  THEN [raised |-> TRUE, keyword_score |-> 0, bid_value |-> 0, keyword_memory |-> km]
  ELSE LET k == BidKeywords(kb.keywords, 1, content, 0, km) IN
       [raised         |-> FALSE,
        keyword_score  |-> k.bid_value,
        bid_value      |-> k.bid_value,
        keyword_memory |-> k.keyword_memory]

\* Agent.bid: raises KeyError when the knowledge-base record has no
\* 'keywords' entry, else returns the bid and updates the recurrence map
bid(kb, km, content) ==
  IF "keywords" \notin DOMAIN kb
  THEN [raised |-> TRUE, keyword_score |-> 0, bid_value |-> 0, keyword_memory |-> km]
  ELSE LET k == BidKeywords(kb.keywords, 1, content, 0, km) IN
       [raised         |-> FALSE,
        keyword_score  |-> k.bid_value,
        bid_value      |-> BidUrgency(1, content, k.bid_value),
        keyword_memory |-> k.keyword_memory]

\* the dict comprehension of the bid round from registry entry i on: personas
\* bid in registry order and the first exception ends the round
RECURSIVE BidRound(_, _, _, _)
BidRound(i, content, kms, acc) ==
  IF i > Len(AgentNames) THEN [raised |-> FALSE, bids |-> acc, keyword_memory |-> kms]
  ELSE
    LET name == AgentNames[i]
        b    == bid(knowledge_base[name], kms[name], content)
    IN  IF b.raised
        THEN [raised |-> TRUE, bids |-> acc, keyword_memory |-> kms]
        ELSE BidRound(i + 1, content,
                      [kms EXCEPT ![name] = b.keyword_memory],
                      acc @@ (name :> b.bid_value))

\* MaxBidder replacing the running best on an equal bid as well
RECURSIVE MaxBidderMut(_, _, _)
MaxBidderMut(bs, i, best) ==
  IF i > Len(AgentNames) THEN best
  ELSE IF bs[AgentNames[i]] >= bs[best]
       THEN MaxBidderMut(bs, i + 1, AgentNames[i])
       ELSE MaxBidderMut(bs, i + 1, best)

\* max(bids, key=bids.get) over the entries from number i on: the running
\* best is replaced only by a strictly greater bid
RECURSIVE MaxBidder(_, _, _)
MaxBidder(bs, i, best) ==
  IF i > Len(AgentNames) THEN best
  ELSE IF bs[AgentNames[i]] > bs[best]
       THEN MaxBidder(bs, i + 1, AgentNames[i])
       ELSE MaxBidder(bs, i + 1, best)

(* ------------------------------ Agent.step ----------------------------- *)

\* one  "\n" + label + ": " + content  appended to the transcript
Line(label, content) == [label |-> label, content |-> content]

\* SetItem rebinding the dict to the new entry alone
SetItemReplace(dict, key, value) == [k \in {key} |-> value]

\* SetItem leaving the apology of a failed call out of the dict
SetItemSkipApology(dict, key, value) ==
  IF value = Apology THEN dict
  ELSE [k \in DOMAIN dict \cup {key} |-> IF k = key THEN value ELSE dict[k]]

\* Agent.shared_memory[key] = value
SetItem(dict, key, value) ==
  [k \in DOMAIN dict \cup {key} |-> IF k = key THEN value ELSE dict[k]]

\* Prompt without the user line
PromptMut(context, content) == context

\* Prompt made of the current user line alone
PromptOnlyUser(context, content) ==
  [context EXCEPT !.lines = <<Line(n_User, content)>>]

\* the transcript as it is when the model is called
Prompt(context, content) ==
  [context EXCEPT !.lines = Append(@, Line(n_User, content))]

\* Agent.step of persona name on input content, the model call giving result
step(name, content, result) ==
  LET prompt == Prompt(current_context, content)
      reply  == Replies[name, content, result]
  IN  /\ model_log' = Append(model_log,
                        [agent |-> name, content |-> content,
                         prompt |-> prompt, failed |-> (result = "error")])
      /\ current_context' = [prompt EXCEPT !.lines = Append(@, Line(name, reply))]
      /\ shared_memory' = SetItem(shared_memory, content, reply)
      /\ stored_messages' = [stored_messages EXCEPT ![name] = Append(@, reply)]
      /\ history' = [history EXCEPT ![name] = Append(@, <<content, reply>>)]
      /\ output' = <<[role |-> name, text |-> reply]>>

(* ------------------- CommunicationManager.run_simulation --------------- *)

\* print(text)
Printed(text) == [role |-> <<>>, text |-> text]

\* print_message(role_name, message)
PrintMessage(role_name, message) == [role |-> role_name, text |-> message]

\* InCache never finding the line
InCacheMut(line, memory) == FALSE

\* the test  user_input in Agent.shared_memory
InCache(line, memory) == line \in DOMAIN memory

Init ==
  /\ pc = "Idle"
  /\ \E kbs \in KnowledgeBaseFiles :
       knowledge_base = [n \in Agents |-> GetKnowledgeBaseFor(kbs, RoleOf(n))]
  /\ system_message = [n \in Agents |-> GetSystemMessageFor(n, EmptyDict)]
  /\ stored_messages = [n \in Agents |-> <<GetSystemMessageFor(n, EmptyDict)>>]
  /\ history = [n \in Agents |-> <<>>]
  /\ keyword_memory = [n \in Agents |-> EmptyDict]
  /\ \E i \in 1..Len(incidents) : current_context = [incident |-> i, lines |-> <<>>]
  /\ shared_memory = EmptyDict
  /\ user_input = <<>>
  /\ route = "None"
  /\ bids = EmptyDict
  /\ output = <<>>
  /\ error = "None"
  /\ model_log = <<>>
  /\ bid_call = [agent |-> <<>>]

\* lines 130-135: the incident report and the greeting of every persona
Start ==
  /\ pc = "Idle"
  /\ pc' = "WaitingForInput"
  /\ \E i \in 1..Len(incidents), j \in 1..Len(incidents) :
       output' = <<Printed(ReportPrefix \o incidents[j].severity \o ReportMid
                             \o incidents[i].desc)>>
                 \o [k \in 1..Len(AgentNames) |->
                       PrintMessage(RoleText(AgentNames[k]), system_message[AgentNames[k]])]
  /\ UNCHANGED <<agent_state, user_input, route, bids, error, model_log, bid_call>>

\* lines 140-142
Exit(line) ==
  /\ pc = "WaitingForInput"
  /\ Command[line] = "exit"
  /\ user_input' = line
  /\ route' = "Command"
  /\ output' = <<Printed(ExitingText)>>
  /\ pc' = "Exited"
  /\ bids' = EmptyDict
  /\ UNCHANGED <<agent_state, error, model_log, bid_call>>

\* lines 143-146
ListAgents(line) ==
  /\ pc = "WaitingForInput"
  /\ Command[line] = "list all agents"
  /\ user_input' = line
  /\ route' = "Command"
  /\ output' = [k \in 1..Len(AgentNames) |->
                  Printed(AgentNames[k] \o Dash \o RoleText(AgentNames[k]))]
  /\ bids' = EmptyDict
  /\ UNCHANGED <<pc, agent_state, error, model_log, bid_call>>

\* lines 147-151: the lookup of 'focus' raises KeyError when the record of
\* the named persona has no focus text
Focus(line) ==
  /\ pc = "WaitingForInput"
  /\ Command[line] = "what's your focus"
  /\ user_input' = line
  /\ route' = "Command"
  /\ bids' = EmptyDict
  /\ LET agent_name == FocusAgentName[line] IN
       IF agent_name \in Agents
       THEN IF "focus" \in DOMAIN knowledge_base[agent_name]
            THEN /\ output' = <<Printed(knowledge_base[agent_name].focus)>>
                 /\ UNCHANGED <<pc, error>>
            ELSE /\ output' = <<>>
                 /\ pc' = "Crashed"
                 /\ error' = "KeyError: 'focus'"
       ELSE /\ output' = <<>>
            /\ UNCHANGED <<pc, error>>
  /\ UNCHANGED <<agent_state, model_log, bid_call>>

\* CacheHit appending the resubmitted line and the cached reply to the
\* transcript
CacheHitAppends(line) ==
  /\ pc = "WaitingForInput"
  /\ Command[line] = "none"
  /\ InCache(line, shared_memory)
  /\ user_input' = line
  /\ route' = "CacheHit"
  /\ output' = <<PrintMessage(n_System, PreviouslyAddressed \o shared_memory[line])>>
  /\ bids' = EmptyDict
  /\ current_context' =
       [current_context EXCEPT
          !.lines = @ \o <<Line(n_User, line), Line(n_System, shared_memory[line])>>]
  /\ UNCHANGED <<pc, knowledge_base, system_message, stored_messages, history,
                 keyword_memory, shared_memory, error, model_log, bid_call>>

\* CacheHit taking a round of bids before it answers from the cache
CacheHitBids(line) ==
  /\ pc = "WaitingForInput"
  /\ Command[line] = "none"
  /\ InCache(line, shared_memory)
  /\ user_input' = line
  /\ route' = "CacheHit"
  /\ output' = <<PrintMessage(n_System, PreviouslyAddressed \o shared_memory[line])>>
  /\ LET round == BidRound(1, line, keyword_memory, EmptyDict) IN
       /\ bids' = round.bids
       /\ keyword_memory' = round.keyword_memory
  /\ UNCHANGED <<pc, knowledge_base, system_message, stored_messages, history,
                 current_context, shared_memory, error, model_log, bid_call>>

\* lines 155-157
CacheHit(line) ==
  /\ pc = "WaitingForInput"
  /\ Command[line] = "none"
  /\ InCache(line, shared_memory)
  /\ user_input' = line
  /\ route' = "CacheHit"
  /\ output' = <<PrintMessage(n_System, PreviouslyAddressed \o shared_memory[line])>>
  /\ bids' = EmptyDict
  /\ UNCHANGED <<pc, agent_state, error, model_log, bid_call>>

\* lines 159-167
AddressedReply(line) ==
  /\ pc = "WaitingForInput"
  /\ Command[line] = "none"
  /\ ~InCache(line, shared_memory)
  /\ addressed_agent[line] # <<>>
  /\ Len(model_log) < MaxTurns
  /\ user_input' = line
  /\ route' = "AddressedReply"
  /\ bids' = EmptyDict
  /\ \E result \in ModelResults :
       step(addressed_agent[line], line, result)
  /\ UNCHANGED <<pc, knowledge_base, system_message, keyword_memory, error, bid_call>>

\* lines 168-172: a KeyError raised by a bid leaves run_simulation
BidReply(line) ==
  /\ pc = "WaitingForInput"
  /\ Command[line] = "none"
  /\ ~InCache(line, shared_memory)
  /\ addressed_agent[line] = <<>>
  /\ Len(model_log) < MaxTurns
  /\ user_input' = line
  /\ route' = "BidReply"
  /\ LET round == BidRound(1, line, keyword_memory, EmptyDict) IN
       /\ bids' = round.bids
       /\ keyword_memory' = round.keyword_memory
       /\ IF round.raised
          THEN /\ pc' = "Crashed"
               /\ error' = "KeyError: 'keywords'"
               /\ output' = <<>>
               /\ UNCHANGED <<stored_messages, history, current_context,
                              shared_memory, model_log>>
          ELSE /\ \E result \in ModelResults :
                    step(MaxBidder(round.bids, 1, AgentNames[1]), line, result)
               /\ UNCHANGED <<pc, error>>
  /\ UNCHANGED <<knowledge_base, system_message, bid_call>>

Next ==
  \/ Start
  \/ \E line \in Inputs : Exit(line)
  \/ \E line \in Inputs : ListAgents(line)
  \/ \E line \in Inputs : Focus(line)
  \/ \E line \in Inputs : CacheHit(line)
  \/ \E line \in Inputs : AddressedReply(line)
  \/ \E line \in Inputs : BidReply(line)

Spec == Init /\ [][Next]_vars

(* ----------------------------- bid harness ----------------------------- *)

\* the messages given to direct calls of bid
BidInputs == Texts \ CommandInputs

\* a direct call of bid(content) on persona name; one persona is exercised
\* per behaviour
BidCall(name, content) ==
  /\ bid_call.agent \in {<<>>, name}
  /\ \A k \in DOMAIN keyword_memory[name] : keyword_memory[name][k] < MaxCount
  /\ LET b == bid(knowledge_base[name], keyword_memory[name], content) IN
       /\ keyword_memory' = [keyword_memory EXCEPT ![name] = b.keyword_memory]
       /\ bid_call' = [agent |-> name, content |-> content, raised |-> b.raised,
                       keyword_score |-> b.keyword_score, bid_value |-> b.bid_value,
                       before |-> keyword_memory[name]]
  /\ UNCHANGED <<pc, knowledge_base, system_message, stored_messages, history,
                 current_context, shared_memory, user_input, route, bids,
                 output, error, model_log>>

BidNext == \E name \in Agents, content \in BidInputs : BidCall(name, content)

BidSpec == Init /\ [][BidNext]_vars

(* ------------------------- properties: helpers ------------------------- *)

\* the personas whose name occurs in a line as a whole word, ignoring case
NamedIn == [line \in Inputs |-> {name \in Agents : SearchWord(name, line)}]

\* position of a persona in the registry
RegistryIndex(name) == CHOOSE i \in 1..Len(AgentNames) : AgentNames[i] = name

\* the lines appended to the shared transcript
Lines == current_context.lines

\* the persona whose reply is the last line of the transcript
Responder == Lines[Len(Lines)].label

\* the calls of the external model made for message m
ModelCallsFor(m) == {i \in 1..Len(model_log) : model_log[i].content = m}

\* the reply appended to the transcript right after the first user line m
FirstReplyTo(m) ==
  Lines[(CHOOSE i \in 1..Len(Lines) :
           /\ Lines[i] = Line(n_User, m)
           /\ \A j \in 1..(i - 1) : Lines[j] # Line(n_User, m)) + 1].content

\* a step of the dispatcher loop that reads the line m
Reads(m) == pc = "WaitingForInput" /\ user_input' = m

(* ------------------------------ properties ----------------------------- *)

\* C1 (cache idempotence): the external model is invoked at most once for
\* every message text; when a text already handled is submitted again, the
\* line shown carries exactly the reply given on the first submission, the
\* model is not called and nothing is appended to the shared transcript.
C1_CacheIdempotence ==
  [][\A m \in MessageInputs :
       /\ Cardinality(ModelCallsFor(m))' <= 1
       /\ (Reads(m) /\ ModelCallsFor(m) # {}) =>
            /\ output' = <<PrintMessage(n_System, PreviouslyAddressed \o FirstReplyTo(m))>>
            /\ model_log' = model_log
            /\ current_context' = current_context]_vars

\* a message is submitted a second time and answered from the cache
C1_Witness ==
  /\ route = "CacheHit"
  /\ user_input \in MessageInputs
  /\ Cardinality(ModelCallsFor(user_input)) = 1
  /\ output = <<PrintMessage(n_System, PreviouslyAddressed \o FirstReplyTo(user_input))>>

\* C2 as stated: every routed message that contains a persona's name as a
\* whole word is answered by that persona. (It fails: a message naming two
\* personas is answered by only one of them.)
C2_AnyNamedPersonaResponds ==
  (route \in {"AddressedReply", "BidReply"} /\ error = "None") =>
    \A name \in NamedIn[user_input] : Responder = name

\* C2 amended (explicit addressing takes precedence over bidding): every
\* message that is neither a command nor cached and contains one or more
\* personas' names as whole words, ignoring case, is answered by the named
\* persona that comes first in the registry, and no bid is taken, even when
\* another persona would bid higher.
C2_FirstNamedPersonaResponds ==
  [][\A m \in MessageInputs :
       (Reads(m) /\ m \notin DOMAIN shared_memory /\ NamedIn[m] # {}) =>
         /\ Responder' \in NamedIn[m]
         /\ \A name \in NamedIn[m] : RegistryIndex(Responder') <= RegistryIndex(name)
         /\ model_log'[Len(model_log')].agent = Responder'
         /\ Len(model_log') = Len(model_log) + 1
         /\ keyword_memory' = keyword_memory
         /\ bids' = EmptyDict]_vars

\* Tyne is addressed and answers although Da would bid higher on the message
C2_Witness ==
  /\ route = "AddressedReply"
  /\ user_input = msg_addressed
  /\ Responder = n_Tyne
  /\ "keywords" \in DOMAIN knowledge_base[n_Da]
  /\ bid(knowledge_base[n_Da], keyword_memory[n_Da], msg_addressed).bid_value
       > bid(knowledge_base[n_Tyne], keyword_memory[n_Tyne], msg_addressed).bid_value

\* C3 (bid resolution): when a message that names no persona is answered
\* after a bid round, every persona has bid, no persona bid more than the
\* responder, and every persona earlier in the registry bid strictly less.
C3_BidResolution ==
  (route = "BidReply" /\ error = "None") =>
    /\ NamedIn[user_input] = {}
    /\ DOMAIN bids = Agents
    /\ \A name \in Agents : bids[name] <= bids[Responder]
    /\ \A name \in Agents :
         RegistryIndex(name) < RegistryIndex(Responder) => bids[name] < bids[Responder]
    /\ model_log[Len(model_log)].agent = Responder

\* two personas share the highest bid and the earlier one answers
C3_Witness ==
  /\ route = "BidReply"
  /\ error = "None"
  /\ user_input = msg_tie
  /\ bids[n_Tyne] = bids[n_Da]
  /\ bids[n_Tyne] > bids[n_Ben]
  /\ Responder = n_Tyne

\* the keywords of a persona that has keyword data
KeywordsOf(name) ==
  {knowledge_base[name].keywords[i] : i \in 1..Len(knowledge_base[name].keywords)}

\* the urgency markers that occur in a text
MarkersIn(content) ==
  {i \in 1..Len(UrgencyMarkers) : Occurs[UrgencyMarkers[i], content]}

\* the keyword score C4 states for a call: 5 for a keyword that matched on
\* fewer than three earlier calls, 3 for one that matched on three or more
RECURSIVE C4_ExpectedScore(_, _, _)
C4_ExpectedScore(ks, content, counts) ==
  IF ks = {} THEN 0
  ELSE LET k == CHOOSE x \in ks : TRUE IN
       (IF Occurs[k, content]
        THEN (IF Get(counts, k, 0) < 3 THEN 5 ELSE 3)
        ELSE 0) + C4_ExpectedScore(ks \ {k}, content, counts)

\* C4 (keyword penalty): on every bid call of a persona, each matching
\* keyword contributes 5 on its first three matching calls and 3 (5 minus 2)
\* on the 4th and every later one, and the recurrence count of a keyword
\* grows by one on exactly the calls in which it matches.
C4_KeywordPenalty ==
  (bid_call.agent # <<>> /\ ~bid_call.raised) =>
    LET name == bid_call.agent IN
    /\ bid_call.keyword_score =
         C4_ExpectedScore(KeywordsOf(name), bid_call.content, bid_call.before)
    /\ \A k \in KeywordsOf(name) :
         Get(keyword_memory[name], k, 0) =
           Get(bid_call.before, k, 0) + (IF Occurs[k, bid_call.content] THEN 1 ELSE 0)
    /\ DOMAIN keyword_memory[name] \subseteq KeywordsOf(name)

\* a keyword matches for the 4th time and contributes 3, the count going to 4
C4_Witness ==
  /\ bid_call.agent = n_Tyne
  /\ ~bid_call.raised
  /\ bid_call.content = msg_immediately
  /\ Get(bid_call.before, kw_rollback, 0) = 3
  /\ Get(keyword_memory[n_Tyne], kw_rollback, 0) = 4
  /\ bid_call.keyword_score = 3

\* C5 (urgency markers): every bid equals the keyword score plus 10 for each
\* of the three markers that occurs in the message, whatever the persona and
\* its recurrence counts; a message with two markers and no keyword bids 20.
C5_UrgencyMarkers ==
  (bid_call.agent # <<>> /\ ~bid_call.raised) =>
    /\ bid_call.bid_value =
         bid_call.keyword_score + 10 * Cardinality(MarkersIn(bid_call.content))
    /\ (/\ Cardinality(MarkersIn(bid_call.content)) = 2
        /\ \A k \in KeywordsOf(bid_call.agent) : ~Occurs[k, bid_call.content])
         => bid_call.bid_value = 20

\* "urgent asap" bids 20 for a persona whose keywords have already recurred
C5_Witness ==
  /\ bid_call.agent = n_Da
  /\ ~bid_call.raised
  /\ bid_call.content = msg_two_markers
  /\ bid_call.bid_value = 20
  /\ bid_call.before # EmptyDict

\* the reply given on turn t
ReplyOfTurn(t) == Lines[2 * t].content

\* C6 (transcript ordering): after N handled turns the transcript is the
\* initial context followed by exactly 2N lines: for each turn in order, the
\* user line and then the reply line under the label of the persona that
\* handled the turn.
C6_TranscriptOrdering ==
  LET N == Len(history[n_Ben]) + Len(history[n_Tyne]) + Len(history[n_Da]) IN
  /\ N = Len(model_log)
  /\ Len(Lines) = 2 * N
  /\ current_context.incident \in 1..Len(incidents)
  /\ \A t \in 1..N :
       /\ Lines[2 * t - 1] = Line(n_User, model_log[t].content)
       /\ Lines[2 * t].label = model_log[t].agent
       /\ \E h \in 1..Len(history[model_log[t].agent]) :
            history[model_log[t].agent][h] = <<model_log[t].content, ReplyOfTurn(t)>>

\* three turns handled by two different personas
C6_Witness ==
  /\ Len(model_log) = 3
  /\ Len(Lines) = 6
  /\ Lines[2].label # Lines[4].label
  /\ Lines[1].label = n_User /\ Lines[3].label = n_User /\ Lines[5].label = n_User

\* the last call of the model raised and the turn that made it is the
\* current one
FailedTurn ==
  /\ route \in {"AddressedReply", "BidReply"}
  /\ error = "None"
  /\ model_log # <<>>
  /\ model_log[Len(model_log)].failed

\* C7 (model failure is recovered locally): after a turn on which the model
\* call raised, the reply shown is the fixed apology, the transcript ends
\* with the user line and the apology under the persona's label, the shared
\* memory and the persona's private history record the pair, and the session
\* waits for the next input.
C7_ModelFailureRecovered ==
  FailedTurn =>
    /\ output = <<PrintMessage(Responder, Apology)>>
    /\ Len(Lines) >= 2
    /\ Lines[Len(Lines) - 1] = Line(n_User, user_input)
    /\ Lines[Len(Lines)] = Line(model_log[Len(model_log)].agent, Apology)
    /\ user_input \in DOMAIN shared_memory
    /\ shared_memory[user_input] = Apology
    /\ history[Responder] # <<>>
    /\ history[Responder][Len(history[Responder])] = <<user_input, Apology>>
    /\ stored_messages[Responder][Len(stored_messages[Responder])] = Apology
    /\ pc = "WaitingForInput"

\* a bid-routed turn on which the model call raised
C7_Witness ==
  /\ FailedTurn
  /\ route = "BidReply"
  /\ shared_memory[user_input] = Apology
  /\ pc = "WaitingForInput"

\* C8 (missing knowledge-base role is not an error): a bid round that
\* includes a persona whose role has no record completes with a bid of every
\* persona and raises no error. (It fails: bid raises KeyError.)
C8_MissingRoleIsNoError ==
  (route = "BidReply" /\ \E name \in Agents : DOMAIN knowledge_base[name] = {}) =>
    /\ error = "None"
    /\ DOMAIN bids = Agents

\* C9 (built-in commands never touch state): a turn that reads "exit",
\* "quit", "list all agents" or a "what's your focus" line leaves the shared
\* transcript, the shared memory and every persona's recurrence counters,
\* private history and stored messages unchanged, takes no bid and calls no
\* model; a focus line naming no persona prints nothing and the session goes on.
C9_CommandsTouchNoState ==
  [][\A line \in CommandInputs :
       Reads(line) =>
         /\ UNCHANGED <<current_context, shared_memory, keyword_memory, history,
                        stored_messages>>
         /\ model_log' = model_log
         /\ bids' = EmptyDict
         /\ (line = in_focus_bob => (output' = <<>> /\ pc' = "WaitingForInput"))]_vars

\* a focus line naming no persona was read after a turn had been handled
C9_Witness ==
  /\ route = "Command"
  /\ user_input = in_focus_bob
  /\ output = <<>>
  /\ model_log # <<>>
  /\ pc = "WaitingForInput"

\* C10 (session state machine): the session leaves the loop only on an
\* "exit" or "quit" line; after every other line it waits for input again.
\* (It fails: a KeyError raised by bid or by the focus lookup ends the run.)
C10_OnlyExitTerminates ==
  \/ pc \in {"Idle", "WaitingForInput"}
  \/ (pc = "Exited" /\ user_input \in {in_exit, in_Quit})

\* C11 (there is always a responder): after a turn that reads a message that
\* is neither a command nor cached, exactly one model call was made for it,
\* by the persona whose reply ends the transcript; when no persona is named
\* and all bids are zero that persona is the first of the registry.
\* (It fails: a bid round ended by the KeyError of bid has no responder.)
C11_AlwaysAResponder ==
  route \in {"AddressedReply", "BidReply"} =>
    /\ Cardinality(ModelCallsFor(user_input)) = 1
    /\ model_log[Len(model_log)].content = user_input
    /\ model_log[Len(model_log)].agent = Responder
    /\ Lines[Len(Lines) - 1] = Line(n_User, user_input)
    /\ (route = "BidReply" /\ \A name \in Agents : bids[name] = 0)
         => Responder = AgentNames[1]

\* C12 (the shared memory records every handled message): every message
\* handled by a persona is a key of the shared memory mapped to the reply
\* given on that turn, and no step removes a key or changes its reply.
C12_SharedMemoryRecords ==
  [][/\ \A t \in 1..Len(model_log') :
          /\ model_log'[t].content \in DOMAIN shared_memory'
          /\ shared_memory'[model_log'[t].content] = Lines'[2 * t].content
     /\ \A m \in DOMAIN shared_memory :
          /\ m \in DOMAIN shared_memory'
          /\ shared_memory'[m] = shared_memory[m]]_vars

\* two messages with different replies are both kept after a later turn
C12_Witness ==
  /\ Len(model_log) = 3
  /\ Cardinality(DOMAIN shared_memory) = 3
  /\ model_log[1].failed
  /\ ~model_log[2].failed
  /\ shared_memory[model_log[1].content] = Apology
  /\ shared_memory[model_log[2].content] = Lines[4].content
  /\ route = "CacheHit"

\* C13 as stated: every turn that reads a message and returns to the prompt
\* appends the message, as a user line, and a reply line to the transcript.
\* (It fails: a message answered from the cache is not appended.)
C13_EverySubmissionAppended ==
  [][\A m \in MessageInputs :
       (Reads(m) /\ pc' = "WaitingForInput") =>
         /\ Len(Lines') = Len(Lines) + 2
         /\ Lines'[Len(Lines) + 1] = Line(n_User, m)]_vars

\* C13 amended (shared-context completeness): the transcript contains, in
\* turn order, the user line and the reply of every turn on which a persona's
\* respond was invoked, and nothing else: such a turn appends exactly its
\* user line and its reply line, every other turn (command, cache hit)
\* appends nothing, and no step removes or rewrites earlier content.
C13_HandledTurnsAppended ==
  [][/\ current_context'.incident = current_context.incident
     /\ Len(Lines') >= Len(Lines)
     /\ SubSeq(Lines', 1, Len(Lines)) = Lines
     /\ IF model_log' # model_log
        THEN Lines' = Lines \o
               <<[label |-> n_User, content |-> user_input'],
                 [label |-> model_log'[Len(model_log')].agent,
                  content |-> output'[1].text]>>
        ELSE Lines' = Lines]_vars

\* the first message is read again after a second one was handled: the
\* transcript still ends with the lines of the second turn
C13_Witness ==
  /\ route = "CacheHit"
  /\ Len(model_log) = 2
  /\ Len(Lines) = 4
  /\ user_input = model_log[1].content
  /\ Lines[1] = Line(n_User, user_input)
  /\ Lines[3].content # user_input

\* the scenario of C14: the message "the database looks corrupted, urgent"
\* has just been answered after a bid round, only Da has the keyword
\* "database", and before the round no persona had matched any keyword
C14_Scenario ==
  /\ route = "BidReply"
  /\ error = "None"
  /\ user_input = msg_scenario
  /\ kw_database \in KeywordsOf(n_Da)
  /\ kw_database \notin KeywordsOf(n_Ben) \cup KeywordsOf(n_Tyne)
  /\ keyword_memory[n_Ben] = EmptyDict
  /\ keyword_memory[n_Tyne] = EmptyDict
  /\ keyword_memory[n_Da] = (kw_database :> 1)

\* C14 as stated: in the scenario Da bids 15, every other persona bids 0 and
\* Da answers. (It fails: "urgent" gives every persona 10.)
C14_OthersBidZero ==
  C14_Scenario =>
    /\ bids[n_Da] = 15
    /\ bids[n_Ben] = 0
    /\ bids[n_Tyne] = 0
    /\ Responder = n_Da

\* C14 amended: in the scenario Da bids 15 (5 for "database" plus 10 for
\* "urgent"), every other persona bids 10 (for "urgent") and Da answers.
C14_OthersBidTen ==
  C14_Scenario =>
    /\ bids[n_Da] = 15
    /\ bids[n_Ben] = 10
    /\ bids[n_Tyne] = 10
    /\ Responder = n_Da

\* the scenario after an earlier addressed turn
C14_Witness ==
  /\ C14_Scenario
  /\ Len(model_log) = 2
  /\ Responder = n_Da
  /\ bids[n_Da] > bids[n_Tyne]

\* the persona has keyword data, so that its bid returns
HasKeywords(name) == "keywords" \in DOMAIN knowledge_base[name]

\* the value bid would return for a message in the current state
WouldBid(name, m) == bid(knowledge_base[name], keyword_memory[name], m).bid_value

\* C15 (bids are non-negative): every call of bid, for every message and in
\* every reachable recurrence state of a persona, returns, and the value it
\* returns is a non-negative integer. (It fails: the bid of a persona whose
\* role has no record raises instead of returning; the bids of the other
\* personas are natural numbers.)
C15_BidNonNegative ==
  bid_call.agent # <<>> =>
    /\ ~bid_call.raised
    /\ bid_call.bid_value \in Nat
    /\ bid_call.keyword_score \in Nat

\* C20 (bids decay monotonically): over every step, for every persona and
\* every message, the value bid would return does not grow, a call returns
\* exactly that value, and no recurrence counter is removed or lowered.
C20_BidsDecay ==
  [][/\ \A name \in Agents :
          HasKeywords(name) =>
            /\ \A m \in BidInputs : WouldBid(name, m)' <= WouldBid(name, m)
            /\ \A k \in DOMAIN keyword_memory[name] :
                 /\ k \in DOMAIN keyword_memory'[name]
                 /\ keyword_memory'[name][k] >= keyword_memory[name][k]
     /\ (bid_call' # bid_call /\ ~bid_call'.raised) =>
          bid_call'.bid_value = WouldBid(bid_call'.agent, bid_call'.content)]_vars

\* Tyne's bid on "deploy urgent asap" has gone down from 25 to 23
C20_Witness ==
  /\ bid_call.agent = n_Tyne
  /\ ~bid_call.raised
  /\ bid_call.content = msg_tie
  /\ Get(bid_call.before, kw_deploy, 0) = 3
  /\ bid_call.bid_value = 23
  /\ WouldBid(n_Tyne, msg_tie) = 23

\* the named persona that comes first in the registry
FirstInRegistry(m) ==
  AgentNames[CHOOSE i \in 1..Len(AgentNames) :
               /\ AgentNames[i] \in NamedIn[m]
               /\ \A j \in 1..(i - 1) : AgentNames[j] \notin NamedIn[m]]

\* C16 (several names, and no bidding on addressed turns): a message that is
\* not cached and contains the names of one or more personas as whole words
\* is given to the named persona that comes first in the registry, wherever
\* the names stand in the text; on that turn no bid is called: the round of
\* bids is empty and no recurrence counter changes.
C16_RegistryOrderNoBid ==
  [][\A m \in MessageInputs :
       (Reads(m) /\ m \notin DOMAIN shared_memory /\ NamedIn[m] # {}) =>
         /\ route' = "AddressedReply"
         /\ model_log' = Append(model_log, model_log'[Len(model_log')])
         /\ model_log'[Len(model_log')].agent = FirstInRegistry(m)
         /\ model_log'[Len(model_log')].content = m
         /\ Lines'[Len(Lines')].label = FirstInRegistry(m)
         /\ bids' = EmptyDict
         /\ bid_call' = bid_call
         /\ \A name \in Agents : keyword_memory'[name] = keyword_memory[name]]_vars

\* "da and ben deploy" is answered by Ben, who comes first in the registry,
\* although Da comes first in the text and deploy is one of Da's keywords;
\* no counter has been created
C16_Witness ==
  /\ route = "AddressedReply"
  /\ user_input = msg_two_names
  /\ NamedIn[msg_two_names] = {n_Ben, n_Da}
  /\ WordPosition(n_Da, msg_two_names) < WordPosition(n_Ben, msg_two_names)
  /\ Responder = n_Ben
  /\ HasKeywords(n_Da)
  /\ kw_deploy \in KeywordsOf(n_Da)
  /\ \A name \in Agents : keyword_memory[name] = EmptyDict

\* C17 (a cache hit is a pure read): a turn whose raw text is already a key
\* of the shared memory, whether or not the text names a persona or contains
\* keywords, is answered from the cache and leaves the transcript, the shared
\* memory, every persona's recurrence counters, private history and stored
\* messages unchanged; the model is not called and no bid is taken.
C17_CacheHitPureRead ==
  [][\A m \in MessageInputs :
       (Reads(m) /\ m \in DOMAIN shared_memory) =>
         /\ route' = "CacheHit"
         /\ current_context' = current_context
         /\ shared_memory' = shared_memory
         /\ keyword_memory' = keyword_memory
         /\ history' = history
         /\ stored_messages' = stored_messages
         /\ model_log' = model_log
         /\ bids' = EmptyDict
         /\ pc' = pc]_vars

\* "deploy urgent asap", which names nobody and holds keywords of Tyne and
\* Da, is served from the cache after a turn addressed to Tyne: the
\* counters are those of its one bid round
C17_Witness ==
  /\ route = "CacheHit"
  /\ user_input = msg_tie
  /\ NamedIn[msg_tie] = {}
  /\ Len(model_log) = 2
  /\ model_log[1].content = msg_tie
  /\ model_log[2].content = msg_addressed
  /\ Len(Lines) = 4
  /\ keyword_memory[n_Tyne] = (kw_deploy :> 1)

\* C18 (prompt contents): the prompt of the t-th model call is the initial
\* context followed by the whole transcript of the t - 1 earlier turns, user
\* lines and replies of every persona in order, and ends with the user line
\* of the call; the reply of the call, also when the call failed, is the
\* line that follows the prompt in the transcript and is not part of it.
C18_PromptIsTranscript ==
  \A t \in 1..Len(model_log) :
    /\ model_log[t].prompt.incident = current_context.incident
    /\ Len(model_log[t].prompt.lines) = 2 * t - 1
    /\ model_log[t].prompt.lines = SubSeq(Lines, 1, 2 * t - 1)
    /\ model_log[t].prompt.lines[2 * t - 1] = Line(n_User, model_log[t].content)
    /\ Len(Lines) >= 2 * t
    /\ Lines[2 * t].label = model_log[t].agent
    /\ model_log[t].failed => Lines[2 * t].content = Apology

\* the prompt of a third call holds the replies of two different personas,
\* the second of them an apology
C18_Witness ==
  /\ Len(model_log) = 3
  /\ model_log[2].failed
  /\ model_log[3].prompt.lines[2].label # model_log[3].prompt.lines[4].label
  /\ model_log[3].prompt.lines[4].content = Apology
  /\ model_log[3].prompt.lines[5] = Line(n_User, user_input)
  /\ Len(Lines) = 6

\* C19 (a model failure is memoized): once the model call made for a message
\* has failed, every later submission of the same text is answered as a
\* cache hit with the stored apology, and the model is not called for it
\* again.
C19_FailureMemoized ==
  [][\A m \in MessageInputs :
       (Reads(m) /\ \E t \in ModelCallsFor(m) : model_log[t].failed) =>
         /\ route' = "CacheHit"
         /\ output' = <<PrintMessage(n_System, PreviouslyAddressed \o Apology)>>
         /\ model_log' = model_log
         /\ Cardinality(ModelCallsFor(m)') = 1]_vars

\* the apology is served from the cache after another message was answered
\* in between
C19_Witness ==
  /\ route = "CacheHit"
  /\ output = <<PrintMessage(n_System, PreviouslyAddressed \o Apology)>>
  /\ Len(model_log) = 2
  /\ model_log[1].content = user_input
  /\ model_log[1].failed
  /\ ~model_log[2].failed
  /\ Cardinality(ModelCallsFor(user_input)) = 1
====
